---- MODULE Spec2Model ----
(***************************************************************************)
(* The AP2 credential chain of charity_advisor: IntentMandate ->           *)
(* CartMandate -> PaymentMandate / payment_result, kept in one session's   *)
(* tool_context.state dictionary and written by the three tools            *)
(* save_user_choice, create_cart_mandate and create_payment_mandate.       *)
(*                                                                         *)
(* Time is a natural number of ticks; one tick stands for 15 minutes.      *)
(* The tools only compare timestamps and add timedeltas, so timedelta(     *)
(* hours=1) is 4 ticks and timedelta(minutes=15) is 1 tick.  A timestamp   *)
(* string is the record isoformat() produces; fromisoformat reads it back. *)
(* A truncated SHA-256 over a formatted string is modelled by the tuple of *)
(* the tag and the values formatted into the string (collisions ignored).  *)
(***************************************************************************)
EXTENDS Integers, Sequences, FiniteSets, TLC

VARIABLES
    state,      \* tool_context.state: the session's dictionary
    clock,      \* datetime.now(timezone.utc)
    consent,    \* the donor's answer to the confirmation question about the
                \* cart now in the store ("none": not asked about this cart)
    ret,        \* what the last tool call returned
    history,    \* the tool calls and consent events of the session, in order
    pc,         \* where DonationProcessingPipeline stands ("idle": not running)
    sessions    \* the session service: which session_id the runner is running,
                \* and the state of the session it is not running

vars == <<state, clock, consent, ret, history, pc, sessions>>

\* ---------------------------------------------------------------- bounds
MaxClock == 5
MaxDrift == 1

\* ------------------------------------------------------ program constants
IntentTTL == 4
CartTTL == 1
MaxAmount == 1000000
EinLength == 10
EinHyphenIndex == 2

\* ---------------------------------------------------------------- inputs
RoomToRead == <<"R", "t", "R">>
Blank == <<" ", " ">>
Names == {RoomToRead, Blank}

EinRoomToRead == <<"7", "7", "-", "0", "4", "7", "9", "9", "0", "5">>
Eins == {EinRoomToRead}

Amounts == {0, 50, 75}

None == [none |-> TRUE]

\* ------------------------------------------------------------ dictionaries
\* dict.get(key, default)
Get(d, k, default) == IF k \in DOMAIN d THEN d[k] ELSE default

\* an assignment that replaces the dictionary by one holding only the new key
Put_fresh(d, k, v) == [x \in {k} |-> v]

\* an assignment that merges into an existing dictionary value, whose fields win
Put_keep_old(d, k, v) ==
    [x \in (DOMAIN d) \cup {k} |->
        IF x # k THEN d[x]
        ELSE IF k \notin DOMAIN d THEN v
        ELSE [f \in (DOMAIN d[k]) \cup (DOMAIN v) |->
                 IF f \in DOMAIN d[k] THEN d[k][f] ELSE v[f]]]

\* dict[key] = value
Put(d, k, v) == [x \in (DOMAIN d) \cup {k} |-> IF x = k THEN v ELSE d[x]]

EmptyDict == [x \in {} |-> None]

\* a test for absence that never finds a dictionary absent
Falsy_never(d) == FALSE

\* `not d` for a dictionary (None, which .get returns for an absent key, and {})
Falsy(d) == DOMAIN d = {}

\* -------------------------------------------------------------- timestamps
\* datetime.isoformat() of an aware UTC datetime
IsoFormat(t) == [instant |-> t, offset |-> "+00:00"]

\* whether datetime.fromisoformat(s.replace('Z', '+00:00')) returns a value
IsIsoString(s) == DOMAIN s = {"instant", "offset"}

\* the instant datetime.fromisoformat(s) denotes
FromIsoFormat(s) == s.instant

\* a comparison that takes every parsed datetime for an aware one
IsNaive_never(s) == FALSE

\* whether comparing the parsed datetime with an aware `now` raises TypeError
IsNaive(s) == s.offset = ""

\* str.strip() on a sequence of characters
RECURSIVE LStrip(_)
LStrip(s) == IF s # <<>> /\ Head(s) = " " THEN LStrip(Tail(s)) ELSE s

RECURSIVE RStrip(_)
RStrip(s) ==
    IF s # <<>> /\ s[Len(s)] = " " THEN RStrip(SubSeq(s, 1, Len(s) - 1)) ELSE s

Strip(s) == RStrip(LStrip(s))

\* str.replace('-', '')
RECURSIVE RemoveHyphens(_)
RemoveHyphens(s) ==
    IF s = <<>> THEN <<>>
    ELSE IF Head(s) = "-" THEN RemoveHyphens(Tail(s))
    ELSE <<Head(s)>> \o RemoveHyphens(Tail(s))

\* ------------------------------------------------------------ IntentStage
\* _validate_charity_data with the upper bound excluded
_validate_charity_data_exclusive(charity_name, charity_ein, amount) ==
    IF charity_name = <<>> \/ Strip(charity_name) = <<>>
    THEN <<FALSE, "Charity name cannot be empty">>
    ELSE IF charity_ein = <<>> \/ Len(charity_ein) # EinLength
            \/ charity_ein[EinHyphenIndex + 1] # "-"
    THEN <<FALSE, "Invalid EIN format">>
    ELSE IF amount <= 0
    THEN <<FALSE, "Donation amount must be positive">>
    ELSE IF amount >= MaxAmount
    THEN <<FALSE, "Donation amount exceeds maximum">>
    ELSE <<TRUE, "">>

\* _validate_charity_data checking the amount first
_validate_charity_data_amount_first(charity_name, charity_ein, amount) ==
    IF amount <= 0
    THEN <<FALSE, "Donation amount must be positive">>
    ELSE IF amount > MaxAmount
    THEN <<FALSE, "Donation amount exceeds maximum">>
    ELSE IF charity_name = <<>> \/ Strip(charity_name) = <<>>
    THEN <<FALSE, "Charity name cannot be empty">>
    ELSE IF charity_ein = <<>> \/ Len(charity_ein) # EinLength
            \/ charity_ein[EinHyphenIndex + 1] # "-"
    THEN <<FALSE, "Invalid EIN format">>
    ELSE <<TRUE, "">>

\* _validate_charity_data without the lower bound on the amount
_validate_charity_data_no_lower_bound(charity_name, charity_ein, amount) ==
    IF charity_name = <<>> \/ Strip(charity_name) = <<>>
    THEN <<FALSE, "Charity name cannot be empty">>
    ELSE IF charity_ein = <<>> \/ Len(charity_ein) # EinLength
            \/ charity_ein[EinHyphenIndex + 1] # "-"
    THEN <<FALSE, "Invalid EIN format">>
    ELSE IF amount > MaxAmount
    THEN <<FALSE, "Donation amount exceeds maximum">>
    ELSE <<TRUE, "">>

\* _validate_charity_data: (is_valid, error_message)
_validate_charity_data(charity_name, charity_ein, amount) ==
    IF charity_name = <<>> \/ Strip(charity_name) = <<>>
    THEN <<FALSE, "Charity name cannot be empty">>
    ELSE IF charity_ein = <<>> \/ Len(charity_ein) # EinLength
            \/ charity_ein[EinHyphenIndex + 1] # "-"
    THEN <<FALSE, "Invalid EIN format">>
    ELSE IF amount <= 0
    THEN <<FALSE, "Donation amount must be positive">>
    ELSE IF amount > MaxAmount
    THEN <<FALSE, "Donation amount exceeds maximum">>
    ELSE <<TRUE, "">>

\* _create_intent_mandate with the cart's lifetime as the intent's
_create_intent_mandate_short(charity_name, charity_ein, amount, timestamp) ==
    [user_cart_confirmation_required |-> TRUE,
     natural_language_description |-> <<"Donate", amount, charity_name>>,
     merchants |-> <<charity_name>>,
     skus |-> None,
     requires_refundability |-> FALSE,
     intent_expiry |-> IsoFormat(timestamp + 1),
     timestamp |-> IsoFormat(timestamp),
     intent_id |-> <<"intent", RemoveHyphens(charity_ein), timestamp>>,
     charity_ein |-> charity_ein,
     amount |-> amount,
     currency |-> "USD"]

\* _create_intent_mandate, with `timestamp` the value of its datetime.now()
_create_intent_mandate(charity_name, charity_ein, amount, timestamp) ==
    [user_cart_confirmation_required |-> TRUE,
     natural_language_description |-> <<"Donate", amount, charity_name>>,
     merchants |-> <<charity_name>>,
     skus |-> None,
     requires_refundability |-> FALSE,
     intent_expiry |-> IsoFormat(timestamp + IntentTTL),
     timestamp |-> IsoFormat(timestamp),
     intent_id |-> <<"intent", RemoveHyphens(charity_ein), timestamp>>,
     charity_ein |-> charity_ein,
     amount |-> amount,
     currency |-> "USD"]

Ok(op, message) == [op |-> op, status |-> "success", message |-> message]

\* a helper that raises instead of returning, and what the caller of a tool
\* then gets: the exception, no result dictionary
Raise(exception) == <<FALSE, exception, "raise">>
Raised(v) == Len(v) = 3
Exc(op, exception) == [op |-> op, status |-> "raised", message |-> exception]

\* `x is None`, for a value that is a dictionary or a string otherwise
IsNone(x) == DOMAIN x = {"none"}
Err(op, message) == [op |-> op, status |-> "error", message |-> message]

\* history: the successful steps so far while they follow the linear order
\* Intent, Offer, consent request, affirmative answer, Payment; <<"other">>
\* after any step that leaves that order
LinearRun == <<"save_user_choice", "create_cart_mandate", "ask", "affirmative",
               "create_payment_mandate">>

Record(h, step) ==
    IF Len(h) < Len(LinearRun) /\ h = SubSeq(LinearRun, 1, Len(h))
       /\ LinearRun[Len(h) + 1] = step
    THEN Append(h, step)
    ELSE <<"other">>

\* ------------------------------------------------------------- OfferStage
\* IntentMandate.model_validate(d) succeeds: the model's required fields
ModelValidateIntent(d) ==
    {"natural_language_description", "intent_expiry"} \subseteq DOMAIN d

\* _validate_intent_expiry without the comparison with the clock
_validate_intent_expiry_unchecked(intent_expiry_str, now) ==
    IF ~IsIsoString(intent_expiry_str) \/ IsNaive(intent_expiry_str)
    THEN <<FALSE, "Invalid intent_expiry format">>
    ELSE <<TRUE, "">>

\* _validate_intent_expiry, with `now` the value of its datetime.now()
_validate_intent_expiry(intent_expiry_str, now) ==
    IF ~IsIsoString(intent_expiry_str) \/ IsNaive(intent_expiry_str)
    THEN <<FALSE, "Invalid intent_expiry format">>
    ELSE IF FromIsoFormat(intent_expiry_str) < now
    THEN <<FALSE, "IntentMandate expired">>
    ELSE <<TRUE, "">>

\* _generate_merchant_signature: "SIG_" + sha256(sorted compact JSON)[:16]
_generate_merchant_signature(cart_contents) == <<"SIG", cart_contents>>

\* PaymentCurrencyAmount given a fixed value instead of the intent's amount
PaymentCurrencyAmount_fixed(amount) == [currency |-> "USD", value |-> 0]

\* an amount dumped without its currency
PaymentCurrencyAmount_no_currency(amount) == [value |-> amount]

\* PaymentCurrencyAmount(currency="USD", value=amount).model_dump(): value is
\* a number field and keeps the number it is given
PaymentCurrencyAmount(amount) == [currency |-> "USD", value |-> amount]

\* steps 4-5 of create_cart_mandate: the CartContents model built from the
\* intent, as model_dump(mode='json') renders it, with `timestamp` the value of
\* datetime.now() at step 5
BuildCartContents(intent_mandate_dict, timestamp) ==
    LET merchants == Get(intent_mandate_dict, "merchants", <<>>)
        charity_name ==
            IF merchants # <<>> THEN merchants[1]
            ELSE <<"Unknown Charity">>
        amount == Get(intent_mandate_dict, "amount", 0)
        cart_id == <<"cart", charity_name, timestamp>>
        cart_expiry == timestamp + CartTTL
        payment_request ==
            [method_data |-> <<[supported_methods |-> "CARD",
                                data |-> [supported_networks |-> <<"visa", "mastercard", "amex">>,
                                          supported_types |-> <<"debit", "credit">>]]>>,
             details |-> [id |-> <<"order", cart_id>>,
                          display_items |-> <<[label |-> <<"Donation to", charity_name>>,
                                               amount |-> PaymentCurrencyAmount(amount)]>>,
                          total |-> [label |-> "Total Donation",
                                     amount |-> PaymentCurrencyAmount(amount)]],
             options |-> [request_payer_name |-> FALSE,
                          request_payer_email |-> FALSE,
                          request_payer_phone |-> FALSE,
                          request_shipping |-> FALSE,
                          shipping_type |-> None]]
    IN  [id |-> cart_id,
         cart_expiry |-> IsoFormat(cart_expiry),
         merchant_name |-> charity_name,
         user_cart_confirmation_required |-> FALSE,
         payment_request |-> payment_request]

\* steps 6-8 with the signature taken before cart_expiry is set
BuildCartMandate_signed_early(intent_mandate_dict, timestamp) ==
    LET cart_contents == BuildCartContents(intent_mandate_dict, timestamp)
    IN  [contents |-> cart_contents,
         merchant_authorization |->
             _generate_merchant_signature(
                 [cart_contents EXCEPT !.cart_expiry = IsoFormat(timestamp)]),
         timestamp |-> IsoFormat(timestamp)]

\* steps 6-8 of create_cart_mandate: the signature over the contents model, the
\* CartMandate model dumped to a dictionary, and the custom timestamp
BuildCartMandate(intent_mandate_dict, timestamp) ==
    LET cart_contents == BuildCartContents(intent_mandate_dict, timestamp)
    IN  [contents |-> cart_contents,
         merchant_authorization |-> _generate_merchant_signature(cart_contents),
         timestamp |-> IsoFormat(timestamp)]

\* create_cart_mandate(tool_context); the clock is read at the expiry check and
\* again, `drift` ticks later, at step 5
create_cart_mandate(drift) ==
    LET op == "create_cart_mandate"
        intent_mandate_dict == Get(state, "intent_mandate", EmptyDict)
    IN
    /\ clock + drift <= MaxClock
    /\ IF Falsy(intent_mandate_dict)
       THEN /\ ret' = Err(op, "No IntentMandate found")
            /\ UNCHANGED <<state, clock>>
       ELSE IF ~ModelValidateIntent(intent_mandate_dict)
       THEN /\ ret' = Err(op, "Invalid IntentMandate structure")
            /\ UNCHANGED <<state, clock>>
       ELSE LET v == _validate_intent_expiry(intent_mandate_dict.intent_expiry, clock) IN
            IF ~v[1]
            THEN /\ ret' = Err(op, v[2])
                 /\ UNCHANGED <<state, clock>>
            ELSE /\ clock' = clock + drift
                 /\ state' = Put(state, "cart_mandate",
                                 BuildCartMandate(intent_mandate_dict, clock + drift))
                 /\ ret' = Ok(op, "Created signed CartMandate")
    /\ history' = IF ret'.status = "success" THEN Record(history, op) ELSE <<"other">>
    \* an answer given about the replaced cart is not an answer about the new one
    /\ consent' = IF ret'.status = "success" THEN "none" ELSE consent

\* ----------------------------------------------------------- PaymentStage
\* _validate_cart_expiry without the comparison with the clock
_validate_cart_expiry_unchecked(cart_mandate, now) ==
    IF "contents" \notin DOMAIN cart_mandate
    THEN <<FALSE, "CartMandate missing AP2 contents wrapper">>
    ELSE IF "cart_expiry" \notin DOMAIN cart_mandate.contents
    THEN <<FALSE, "CartMandate missing cart_expiry field">>
    ELSE <<TRUE, "">>

\* _validate_cart_expiry checking merchant_authorization against the contents
\* before anything else
_validate_cart_expiry_signature_checked(cart_mandate, now) ==
    IF "contents" \notin DOMAIN cart_mandate
    THEN <<FALSE, "CartMandate missing AP2 contents wrapper">>
    ELSE IF IsNone(cart_mandate.contents)
    THEN Raise("TypeError")
    ELSE IF cart_mandate.merchant_authorization
              # _generate_merchant_signature(cart_mandate.contents)
    THEN <<FALSE, "SignatureMismatch">>
    ELSE IF "cart_expiry" \notin DOMAIN cart_mandate.contents
    THEN <<FALSE, "CartMandate missing cart_expiry field">>
    ELSE LET expiry_str == cart_mandate.contents.cart_expiry IN
         IF IsNone(expiry_str)
         THEN Raise("AttributeError")
         ELSE IF ~IsIsoString(expiry_str) \/ IsNaive(expiry_str)
         THEN <<FALSE, "Invalid cart_expiry format">>
         ELSE IF FromIsoFormat(expiry_str) < now
         THEN <<FALSE, "CartMandate expired">>
         ELSE <<TRUE, "">>

\* _validate_cart_expiry taking a cart that expires right now for expired
_validate_cart_expiry_inclusive(cart_mandate, now) ==
    IF "contents" \notin DOMAIN cart_mandate
    THEN <<FALSE, "CartMandate missing AP2 contents wrapper">>
    ELSE IF "cart_expiry" \notin DOMAIN cart_mandate.contents
    THEN <<FALSE, "CartMandate missing cart_expiry field">>
    ELSE LET expiry_str == cart_mandate.contents.cart_expiry IN
         IF ~IsIsoString(expiry_str) \/ IsNaive(expiry_str)
         THEN <<FALSE, "Invalid cart_expiry format">>
         ELSE IF FromIsoFormat(expiry_str) <= now
         THEN <<FALSE, "CartMandate expired">>
         ELSE <<TRUE, "">>

\* _validate_cart_expiry, with `now` the value of its datetime.now().  The
\* membership test of line 35 is outside the try block and raises TypeError on
\* None; expiry_str.replace raises AttributeError on None, which the handler
\* for (ValueError, TypeError) does not catch.
_validate_cart_expiry(cart_mandate, now) ==
    IF "contents" \notin DOMAIN cart_mandate
    THEN <<FALSE, "CartMandate missing AP2 contents wrapper">>
    ELSE IF IsNone(cart_mandate.contents)
    THEN Raise("TypeError")
    ELSE IF "cart_expiry" \notin DOMAIN cart_mandate.contents
    THEN <<FALSE, "CartMandate missing cart_expiry field">>
    ELSE LET expiry_str == cart_mandate.contents.cart_expiry IN
         IF IsNone(expiry_str)
         THEN Raise("AttributeError")
         ELSE IF ~IsIsoString(expiry_str) \/ IsNaive(expiry_str)
         THEN <<FALSE, "Invalid cart_expiry format">>
         ELSE IF FromIsoFormat(expiry_str) < now
         THEN <<FALSE, "CartMandate expired">>
         ELSE <<TRUE, "">>

\* contents -> payment_request -> details -> total -> amount, each step a
\* .get(key, {})
AmountObj(contents) ==
    LET payment_request == Get(contents, "payment_request", EmptyDict)
        details == Get(payment_request, "details", EmptyDict)
        total == Get(details, "total", EmptyDict)
    IN  Get(total, "amount", EmptyDict)

\* _create_payment_mandate reading the cart id under a key the cart has not
_create_payment_mandate_wrong_key(cart_mandate, consent_granted, timestamp) ==
    LET contents == cart_mandate.contents
        cart_id == Get(contents, "cart_id", <<"unknown">>)
        amount_obj == AmountObj(contents)
    IN  [payment_mandate_contents |->
            [payment_mandate_id |-> <<"payment", cart_id, timestamp>>,
             payment_details_id |-> cart_id,
             timestamp |-> IsoFormat(timestamp),
             user_consent |-> consent_granted,
             consent_timestamp |->
                 IF consent_granted THEN IsoFormat(timestamp) ELSE None,
             amount |-> [currency |-> Get(amount_obj, "currency", "USD"),
                         value |-> Get(amount_obj, "value", "0.00")],
             merchant_name |-> Get(contents, "merchant_name", <<"Unknown">>)],
         agent_present |-> TRUE,
         timestamp |-> IsoFormat(timestamp)]

\* _create_payment_mandate, with `timestamp` the value of its datetime.now()
_create_payment_mandate(cart_mandate, consent_granted, timestamp) ==
    LET contents == cart_mandate.contents
        cart_id == Get(contents, "id", <<"unknown">>)
        amount_obj == AmountObj(contents)
    IN  [payment_mandate_contents |->
            [payment_mandate_id |-> <<"payment", cart_id, timestamp>>,
             payment_details_id |-> cart_id,
             timestamp |-> IsoFormat(timestamp),
             user_consent |-> consent_granted,
             consent_timestamp |->
                 IF consent_granted THEN IsoFormat(timestamp) ELSE None,
             amount |-> [currency |-> Get(amount_obj, "currency", "USD"),
                         value |-> Get(amount_obj, "value", "0.00")],
             merchant_name |-> Get(contents, "merchant_name", <<"Unknown">>)],
         agent_present |-> TRUE,
         timestamp |-> IsoFormat(timestamp)]

\* a payment_result that names the default merchant whatever the cart says
PaymentResult_default_merchant(cart_mandate, t_id, t_res) ==
    LET contents == cart_mandate.contents
        cart_id == Get(contents, "id", <<"unknown">>)
        amount_obj == AmountObj(contents)
    IN  [transaction_id |-> <<"txn", cart_id, t_id>>,
         status |-> "completed",
         amount |-> Get(amount_obj, "value", "0.00"),
         currency |-> Get(amount_obj, "currency", "USD"),
         merchant |-> <<"Unknown Merchant">>,
         timestamp |-> IsoFormat(t_res),
         simulation |-> TRUE]

\* the payment_result dictionary of create_payment_mandate, with t_id and t_res
\* the values of the datetime.now() of lines 175 and 183
PaymentResult(cart_mandate, t_id, t_res) ==
    LET contents == cart_mandate.contents
        cart_id == Get(contents, "id", <<"unknown">>)
        amount_obj == AmountObj(contents)
    IN  [transaction_id |-> <<"txn", cart_id, t_id>>,
         status |-> "completed",
         amount |-> Get(amount_obj, "value", "0.00"),
         currency |-> Get(amount_obj, "currency", "USD"),
         merchant |-> Get(contents, "merchant_name", <<"Unknown Merchant">>),
         timestamp |-> IsoFormat(t_res),
         simulation |-> TRUE]

\* consent recorded as not granted
ConsentGranted_false == FALSE

\* the value line 168 assigns to consent_granted
ConsentGranted == TRUE

\* create_payment_mandate(tool_context); the clock is read at the expiry check,
\* then d1 ticks later in _create_payment_mandate, d2 ticks later for the
\* transaction id and d3 ticks later for the result's timestamp
create_payment_mandate(d1, d2, d3) ==
    LET op == "create_payment_mandate"
        cart_mandate == Get(state, "cart_mandate", EmptyDict)
    IN
    /\ d1 + d2 + d3 <= MaxDrift
    /\ clock + d1 + d2 + d3 <= MaxClock
    /\ IF Falsy(cart_mandate)
       THEN /\ ret' = Err(op, "No CartMandate found")
            /\ UNCHANGED <<state, clock>>
       ELSE IF "contents" \notin DOMAIN cart_mandate
       THEN /\ ret' = Err(op, "Invalid CartMandate structure: missing contents wrapper")
            /\ UNCHANGED <<state, clock>>
       ELSE LET v == _validate_cart_expiry(cart_mandate, clock) IN
            IF Raised(v)
            THEN /\ ret' = Exc(op, v[2])
                 /\ UNCHANGED <<state, clock>>
            ELSE IF ~v[1]
            THEN /\ ret' = Err(op, v[2])
                 /\ UNCHANGED <<state, clock>>
            ELSE LET payment_mandate ==
                         _create_payment_mandate(cart_mandate, ConsentGranted, clock + d1)
                     payment_result ==
                         PaymentResult(cart_mandate, clock + d1 + d2, clock + d1 + d2 + d3)
                 IN  /\ clock' = clock + d1 + d2 + d3
                     /\ state' = Put(Put(state, "payment_mandate", payment_mandate),
                                     "payment_result", payment_result)
                     /\ ret' = Ok(op, "Payment processed successfully")
    /\ history' = IF ret'.status = "success" THEN Record(history, op) ELSE <<"other">>
    /\ UNCHANGED consent

\* ------------------------------------------------------------ ConsentGate
\* the id of the cart in the store, <<>> when there is none
CartId ==
    IF "cart_mandate" \in DOMAIN state /\ "contents" \in DOMAIN state.cart_mandate
    THEN Get(state.cart_mandate.contents, "id", <<>>)
    ELSE <<>>

\* CredentialsProvider presents the payment details of the cart and asks
\* "Do you want to proceed with this donation?"
AskConsent ==
    /\ CartId # <<>>
    /\ consent' = "pending"
    /\ history' = Record(history, "ask")
    /\ UNCHANGED <<state, clock, ret>>

\* the donor's reply to the question
Answer(reply) ==
    /\ consent = "pending"
    /\ consent' = reply
    /\ history' = Record(history, reply)
    /\ UNCHANGED <<state, clock, ret>>

Replies == {"affirmative", "negative", "other"}

\* save_user_choice writing the mandate before it looks at the validation result
save_user_choice_write_first(charity_name, charity_ein, amount) ==
    LET v == _validate_charity_data(charity_name, charity_ein, amount) IN
    /\ state' = Put(state, "intent_mandate",
                    _create_intent_mandate(charity_name, charity_ein, amount, clock))
    /\ ret' = IF ~v[1] THEN Err("save_user_choice", v[2])
              ELSE Ok("save_user_choice", "Created IntentMandate")
    /\ history' = IF v[1] THEN Record(history, "save_user_choice") ELSE <<"other">>
    /\ UNCHANGED <<clock, consent>>

\* save_user_choice(charity_name, charity_ein, amount, tool_context)
save_user_choice(charity_name, charity_ein, amount) ==
    LET v == _validate_charity_data(charity_name, charity_ein, amount) IN
    /\ IF ~v[1]
       THEN /\ ret' = Err("save_user_choice", v[2])
            /\ state' = state
       ELSE /\ state' = Put(state, "intent_mandate",
                    _create_intent_mandate(charity_name, charity_ein, amount, clock))
            /\ ret' = Ok("save_user_choice", "Created IntentMandate")
    /\ history' = IF v[1] THEN Record(history, "save_user_choice") ELSE <<"other">>
    /\ UNCHANGED <<clock, consent>>

\* a clock that is also set back between tool calls
Tick_set_back ==
    /\ clock' \in {clock - 1, clock + 1} \cap (0..MaxClock)
    /\ UNCHANGED <<state, consent, ret, history>>

\* the passage of time between tool calls
Tick ==
    /\ clock < MaxClock
    /\ clock' = clock + 1
    /\ UNCHANGED <<state, consent, ret, history>>

\* session_service.create_session(app_name, user_id, session_id[, state]):
\* the scripts create one session and run every call in it
OneSession ==
    [running |-> "test_session",
     suspended |-> [state |-> EmptyDict, consent |-> "none"]]

Init ==
    /\ state = EmptyDict
    /\ clock = 0
    /\ consent = "none"
    /\ ret = [op |-> "none", status |-> "none", message |-> ""]
    /\ history = <<>>
    /\ pc = "idle"
    /\ sessions = OneSession

\* the tools called in any order, as the scripts call them, outside the pipeline
Next ==
    \/ /\ \E n \in Names, e \in Eins, a \in Amounts : save_user_choice(n, e, a)
       /\ UNCHANGED <<pc, sessions>>
    \/ /\ \E d \in 0..MaxDrift : create_cart_mandate(d)
       /\ UNCHANGED <<pc, sessions>>
    \/ /\ \E d1, d2, d3 \in 0..MaxDrift : create_payment_mandate(d1, d2, d3)
       /\ UNCHANGED <<pc, sessions>>
    \/ AskConsent /\ UNCHANGED <<pc, sessions>>
    \/ (\E reply \in Replies : Answer(reply)) /\ UNCHANGED <<pc, sessions>>
    \/ Tick /\ UNCHANGED <<pc, sessions>>

Spec == Init /\ [][Next]_vars

\* ----------------------------------------------- DonationProcessingPipeline
\* root_agent, phase 1: shopping_agent calls save_user_choice; the pipeline is
\* not running
ShoppingAgent ==
    /\ pc = "idle"
    /\ \E n \in Names, e \in Eins, a \in Amounts : save_user_choice(n, e, a)
    /\ UNCHANGED <<pc, sessions>>

\* root_agent, phase 2, delegates to the SequentialAgent once an intent exists;
\* its first sub-agent, merchant_agent, calls create_cart_mandate, and the
\* SequentialAgent goes on to its second sub-agent whatever the tool returned
MerchantAgent ==
    /\ pc = "idle"
    /\ "intent_mandate" \in DOMAIN state
    /\ \E d \in 0..MaxDrift : create_cart_mandate(d)
    /\ pc' = "credentials_provider"
    /\ UNCHANGED sessions

\* credentials_provider, instruction steps 1-3: reads the cart in the store,
\* presents it and asks
CredentialsProviderAsk ==
    /\ pc = "credentials_provider"
    /\ AskConsent
    /\ pc' = "awaiting_confirmation"
    /\ UNCHANGED sessions

\* credentials_provider finds no cart to present and ends its turn
CredentialsProviderNoCart ==
    /\ pc = "credentials_provider"
    /\ CartId = <<>>
    /\ pc' = "idle"
    /\ UNCHANGED <<state, clock, consent, ret, history, sessions>>

\* the donor's reply: the agent goes on only after an explicit confirmation
UserReply ==
    /\ pc = "awaiting_confirmation"
    /\ \E reply \in Replies :
          /\ Answer(reply)
          /\ pc' = IF reply = "affirmative" THEN "confirmed" ELSE "idle"
    /\ UNCHANGED sessions

\* credentials_provider, instruction step 4: calls create_payment_mandate
CredentialsProviderPay ==
    /\ pc = "confirmed"
    /\ \E d1, d2, d3 \in 0..MaxDrift : create_payment_mandate(d1, d2, d3)
    /\ pc' = "idle"
    /\ UNCHANGED sessions

NextPipeline ==
    \/ ShoppingAgent
    \/ MerchantAgent
    \/ CredentialsProviderAsk
    \/ CredentialsProviderNoCart
    \/ UserReply
    \/ CredentialsProviderPay
    \/ Tick /\ UNCHANGED <<pc, sessions>>

SpecPipeline == Init /\ [][NextPipeline]_vars

\* ------------------------------------------- one tool call on a given store
\* A session is created with a state of the caller's choosing: the scripts seed
\* it with a hand-built intent or cart before the tool under test is called.
\* del d[key]
RemoveKey(d, k) == [x \in (DOMAIN d) \ {k} |-> d[x]]

\* the intent of test_merchant.py, and damaged copies of it
SeededIntent == _create_intent_mandate(RoomToRead, EinRoomToRead, 50, 0)

SeededIntents ==
    {SeededIntent,
     [SeededIntent EXCEPT !.merchants = <<>>],
     RemoveKey(SeededIntent, "amount"),
     RemoveKey(SeededIntent, "intent_expiry"),
     [SeededIntent EXCEPT !.intent_expiry = [text |-> "not a date"]],
     [SeededIntent EXCEPT !.intent_expiry = [instant |-> IntentTTL, offset |-> ""]]}

\* the cart of test_credentials_provider.py, and damaged copies of it
SeededCart == BuildCartMandate(SeededIntent, 2)

\* merchant_authorization of the seeded cart of test_credentials_provider.py: a
\* tag that is not the signature of the cart's contents
TestSignature == _generate_merchant_signature(BuildCartContents(SeededIntent, 0))

SeededCarts ==
    {SeededCart,
     RemoveKey(SeededCart, "contents"),
     [SeededCart EXCEPT !.contents = RemoveKey(SeededCart.contents, "cart_expiry")],
     [SeededCart EXCEPT !.contents = None],
     [SeededCart EXCEPT !.contents.cart_expiry = None],
     [SeededCart EXCEPT !.contents.cart_expiry = [text |-> "not a date"]],
     [SeededCart EXCEPT !.contents.cart_expiry = [instant |-> MaxClock, offset |-> ""]],
     [SeededCart EXCEPT !.merchant_authorization = TestSignature],
     [SeededCart EXCEPT !.contents = RemoveKey(SeededCart.contents, "id")],
     [SeededCart EXCEPT !.contents = RemoveKey(SeededCart.contents, "merchant_name")],
     [SeededCart EXCEPT !.contents = RemoveKey(SeededCart.contents, "payment_request")],
     EmptyDict}

SeededStores ==
    {EmptyDict}
    \cup {Put(EmptyDict, "intent_mandate", i) : i \in SeededIntents}
    \cup {Put(EmptyDict, "cart_mandate", c) : c \in SeededCarts}
    \cup {Put(Put(EmptyDict, "intent_mandate", i), "cart_mandate", c) :
              i \in SeededIntents, c \in SeededCarts}

\* arguments a caller may pass to save_user_choice
PaddedName == <<" ", "R", " ">>
AllNames == {RoomToRead, PaddedName, Blank, <<>>}

EinNoHyphen == <<"7", "7", "0", "4", "7", "9", "9", "0", "5">>
EinHyphenMisplaced == <<"7", "7", "0", "-", "4", "7", "9", "9", "0", "5">>
EinLetters == <<"A", "B", "-", "C", "D", "E", "F", "G", "H", "I">>
AllEins == {EinRoomToRead, EinNoHyphen, EinHyphenMisplaced, EinLetters, <<>>}

AllAmounts == {-5, 0, 1, 50, MaxAmount, MaxAmount + 1}

InitCall ==
    /\ state \in SeededStores
    /\ clock \in 0..MaxClock
    /\ consent = "none"
    /\ ret = [op |-> "none", status |-> "none", message |-> ""]
    /\ history = <<>>
    /\ pc = "idle"
    /\ sessions = OneSession

\* the session's first tool call
CallSave ==
    /\ history = <<>>
    /\ \E n \in AllNames, e \in AllEins, a \in AllAmounts : save_user_choice(n, e, a)
    /\ UNCHANGED <<pc, sessions>>

CallOffer ==
    /\ history = <<>>
    /\ \E d \in 0..MaxDrift : create_cart_mandate(d)
    /\ UNCHANGED <<pc, sessions>>

CallPay ==
    /\ history = <<>>
    /\ \E d1, d2, d3 \in 0..MaxDrift : create_payment_mandate(d1, d2, d3)
    /\ UNCHANGED <<pc, sessions>>

\* the keys validate_ap2_cartmandate accepts in payment_request.options
valid_option_keys ==
    {"request_payer_name", "request_payer_email", "request_payer_phone",
     "request_shipping", "shipping_type"}

\* the message appended to errors when `field` is not a key of `d`
MissingField(d, field, message) == IF field \in DOMAIN d THEN {} ELSE {message}

\* validate_ap2_cartmandate(cart_mandate): the errors it collects, as a set
\* (their order in the list is left out).  method_data is a sequence wherever
\* the model has one, so that the isinstance test of line 56 passes.
validate_ap2_cartmandate(cart_mandate) ==
    LET contents == cart_mandate.contents
        pr == contents.payment_request
        details == pr.details
        total == details.total
        amount == total.amount
        method_data_errors ==
            IF "method_data" \notin DOMAIN pr
            THEN {"payment_request is missing required field: 'method_data'"}
            ELSE IF Len(pr.method_data) = 0
            THEN {"'method_data' must be a non-empty array"}
            ELSE MissingField(pr.method_data[1], "supported_methods",
                              "method_data item is missing 'supported_methods'")
        amount_errors ==
            MissingField(amount, "currency", "amount is missing required field: 'currency'")
            \cup MissingField(amount, "value", "amount is missing required field: 'value'")
        total_errors ==
            IF "amount" \notin DOMAIN total
            THEN {"details.total is missing required field: 'amount'"}
            ELSE amount_errors
        details_errors ==
            IF "details" \notin DOMAIN pr
            THEN {"payment_request is missing required field: 'details'"}
            ELSE IF "total" \notin DOMAIN details
            THEN {"details is missing required field: 'total'"}
            ELSE total_errors
        options_errors ==
            IF "options" \in DOMAIN pr /\ ~(DOMAIN pr.options \subseteq valid_option_keys)
            THEN {"Unknown option key"}
            ELSE {}
        contents_errors ==
            MissingField(contents, "id", "contents is missing required field: 'id'")
            \cup MissingField(contents, "cart_expiry",
                              "contents is missing required field: 'cart_expiry'")
            \cup MissingField(contents, "merchant_name",
                              "contents is missing required field: 'merchant_name'")
            \cup MissingField(contents, "payment_request",
                              "contents is missing required field: 'payment_request'")
            \cup (IF "payment_request" \in DOMAIN contents
                  THEN method_data_errors \cup details_errors \cup options_errors
                  ELSE {})
    IN  MissingField(cart_mandate, "contents", "Missing AP2 wrapper: 'contents'")
        \cup MissingField(cart_mandate, "merchant_authorization",
                          "Missing AP2 signature: 'merchant_authorization'")
        \cup (IF "contents" \in DOMAIN cart_mandate THEN contents_errors ELSE {})

\* test_validation after the merchant agent's turn: the cart in the final session
\* state, if there is one, is validated.  On a cart whose contents is None the
\* validator raises at line 40 and the script ends there.
ValidateCart ==
    LET cart == Get(state, "cart_mandate", EmptyDict) IN
    /\ ret.op = "create_cart_mandate"
    /\ ~Falsy(cart)
    /\ "contents" \in DOMAIN cart => ~IsNone(cart.contents)
    /\ ret' = IF validate_ap2_cartmandate(cart) = {}
              THEN Ok("validate_ap2_cartmandate", "CartMandate is AP2 and W3C PaymentRequest compliant")
              ELSE Err("validate_ap2_cartmandate", "CartMandate validation failed")
    /\ UNCHANGED <<state, clock, consent, history, pc, sessions>>

NextCall == CallSave \/ CallOffer \/ CallPay \/ ValidateCart

SpecCall == InitCall /\ [][NextCall]_vars

\* ------------------------------------------- the signature and key order
\* What json.dumps is given is a dictionary with its keys in insertion order:
\* `order` is that order and items[k] is [leaf |-> value] or, for a nested
\* dictionary, [dict |-> the nested ordered dictionary].
\* the key strings in the order sort_keys=True puts them
KeyOrder == <<"cart_expiry", "currency", "id", "merchant_name", "payment_request", "value">>
KeyRank(k) == CHOOSE i \in 1..Len(KeyOrder) : KeyOrder[i] = k

\* iteration in insertion order, as json.dumps does without sort_keys
SortKeys_insertion_order(keys) == keys

\* sorted(keys)
RECURSIVE SortKeys(_)
SortKeys(keys) ==
    IF keys = <<>> THEN <<>>
    ELSE LET m == CHOOSE i \in 1..Len(keys) :
                     \A j \in 1..Len(keys) : KeyRank(keys[i]) <= KeyRank(keys[j])
         IN  <<keys[m]>> \o SortKeys(SubSeq(keys, 1, m - 1) \o SubSeq(keys, m + 1, Len(keys)))

\* a serialisation that writes nested dictionaries without their items
JsonDumps_shallow(od) ==
    LET ks == SortKeys(od.order) IN
    [i \in 1..Len(ks) |->
        <<ks[i], IF DOMAIN od.items[ks[i]] = {"dict"} THEN <<>>
                 ELSE od.items[ks[i]].leaf>>]

\* json.dumps(d, sort_keys=True, separators=(',', ':')): the key/value pairs in
\* sorted key order, nested dictionaries serialised the same way
RECURSIVE JsonDumps(_)
JsonDumps(od) ==
    LET ks == SortKeys(od.order) IN
    [i \in 1..Len(ks) |->
        <<ks[i], IF DOMAIN od.items[ks[i]] = {"dict"}
                 THEN JsonDumps(od.items[ks[i]].dict)
                 ELSE od.items[ks[i]].leaf>>]

\* "SIG_" + sha256(cart_json)[:16] of an ordered dictionary
SignOrdered(od) == <<"SIG", JsonDumps(od)>>

\* the orders in which the keys of a dictionary can have been inserted
Orders(keys) ==
    {p \in [1..Cardinality(keys) -> keys] :
        \A i, j \in 1..Cardinality(keys) : p[i] = p[j] => i = j}

\* cart contents as ordered dictionaries: every insertion order, and two
\* values for each leaf
SignInputs ==
    {[order |-> top,
      items |-> [id |-> [leaf |-> <<"cart", RoomToRead, 0>>],
                 cart_expiry |-> [leaf |-> IsoFormat(e)],
                 merchant_name |-> [leaf |-> n],
                 payment_request |->
                     [dict |-> [order |-> nested,
                                items |-> [currency |-> [leaf |-> c],
                                           value |-> [leaf |-> v]]]]]] :
        top \in Orders({"id", "cart_expiry", "merchant_name", "payment_request"}),
        nested \in Orders({"currency", "value"}),
        e \in {CartTTL, CartTTL + 1},
        n \in {RoomToRead, <<"Unknown Charity">>},
        c \in {"USD", "EUR"},
        v \in {50, 75}}

InitSign ==
    /\ state \in {[cart_contents |-> od] : od \in SignInputs}
    /\ clock \in {0, MaxClock}
    /\ consent = "none"
    /\ ret = [op |-> "none", status |-> "none", message |-> ""]
    /\ history = <<>>
    /\ pc = "idle"
    /\ sessions = OneSession

\* a call of _generate_merchant_signature on the contents at hand
SignContents ==
    /\ ret' = Ok("_generate_merchant_signature", SignOrdered(state.cart_contents))
    /\ UNCHANGED <<state, clock, consent, history, pc, sessions>>

NextSign == SignContents

SpecSign == InitSign /\ [][NextSign]_vars

\* ------------------------------------------------ two sessions, interleaved
\* The runner is given a session_id with every message; the tools of a turn
\* receive the dictionary of that session as tool_context.state and hold no
\* module-level data of their own.
SessionIds == {"test_session", "pipeline_session"}

\* how far the clock runs while two sessions are followed
MaxSessionClock == 2
OtherSession(id) == CHOOSE s \in SessionIds : s # id

\* a tool that also keeps the store in a module-level dictionary
SessionToolCall_shared_store ==
    /\ \/ \E a \in {0, 50} : save_user_choice(RoomToRead, EinRoomToRead, a)
       \/ create_cart_mandate(0)
       \/ create_payment_mandate(0, 0, 0)
    /\ sessions' = [sessions EXCEPT !.suspended.state = state']
    /\ UNCHANGED pc

\* a tool call of the turn that is running
SessionToolCall ==
    /\ \/ \E a \in {0, 50} : save_user_choice(RoomToRead, EinRoomToRead, a)
       \/ create_cart_mandate(0)
       \/ create_payment_mandate(0, 0, 0)
    /\ UNCHANGED <<pc, sessions>>

\* runner.run_async(user_id, session_id, new_message) for the other session
RunAsync ==
    /\ sessions' = [running |-> OtherSession(sessions.running),
                    suspended |-> [state |-> state, consent |-> consent]]
    /\ state' = sessions.suspended.state
    /\ consent' = sessions.suspended.consent
    /\ history' = <<"other">>
    /\ UNCHANGED <<clock, ret, pc>>

NextSessions ==
    \/ SessionToolCall
    \/ RunAsync
    \/ clock < MaxSessionClock /\ Tick /\ UNCHANGED <<pc, sessions>>

SpecSessions == Init /\ [][NextSessions]_vars

\* ------------------------------------------- the two expiry checks, side by side
\* The strings an expiry field can hold: isoformat() output, the same instant
\* written with a Z suffix, a timestamp without offset, and text that is no
\* timestamp.
ExpiryStrings ==
    {[instant |-> t, offset |-> o] : t \in 0..(MaxClock + 1), o \in {"+00:00", "Z", ""}}
    \cup {[text |-> "not a date"]}

InitExpiry ==
    /\ state \in {[expiry_str |-> s] : s \in ExpiryStrings}
    /\ clock \in 0..MaxClock
    /\ consent = "none"
    /\ ret = [op |-> "none", status |-> "none", message |-> ""]
    /\ history = <<>>
    /\ pc = "idle"
    /\ sessions = OneSession

\* _validate_intent_expiry(intent_expiry_str) on the string at hand
CheckIntentExpiry ==
    LET v == _validate_intent_expiry(state.expiry_str, clock) IN
    /\ ret' = IF v[1] THEN Ok("_validate_intent_expiry", v[2])
              ELSE Err("_validate_intent_expiry", v[2])
    /\ UNCHANGED <<state, clock, consent, history, pc, sessions>>

\* _validate_cart_expiry(cart_mandate) on a cart whose cart_expiry is that string
CheckCartExpiry ==
    LET v == _validate_cart_expiry([contents |-> [cart_expiry |-> state.expiry_str]], clock) IN
    /\ ret' = IF Raised(v) THEN Exc("_validate_cart_expiry", v[2])
              ELSE IF v[1] THEN Ok("_validate_cart_expiry", v[2])
              ELSE Err("_validate_cart_expiry", v[2])
    /\ UNCHANGED <<state, clock, consent, history, pc, sessions>>

NextExpiry == CheckIntentExpiry \/ CheckCartExpiry

SpecExpiry == InitExpiry /\ [][NextExpiry]_vars

\* ================================================================ claims
\* steps of the three tools and readings of the store used by the properties
SaveStep == \E n \in Names, e \in Eins, a \in Amounts : save_user_choice(n, e, a)
OfferStep == \E d \in 0..MaxDrift : create_cart_mandate(d)
PayStep == \E d1, d2, d3 \in 0..MaxDrift : create_payment_mandate(d1, d2, d3)

Has(k) == k \in DOMAIN state
Returned(op, status) == ret.op = op /\ ret.status = status

\* the value under key k is the same before and after the step (absent or equal)
KeyUnchanged(k) ==
    /\ (k \in DOMAIN state') <=> (k \in DOMAIN state)
    /\ k \in DOMAIN state => state'[k] = state[k]

IntentExpiry == FromIsoFormat(state.intent_mandate.intent_expiry)
CartExpiry == FromIsoFormat(state.cart_mandate.contents.cart_expiry)
CartTotal(s) == s.cart_mandate.contents.payment_request.details.total.amount
PaymentContents(s) == s.payment_mandate.payment_mandate_contents

\* C1: whenever create_payment_mandate is invoked on a well-formed, unexpired
\* cart about which the donor has not answered affirmatively, it returns an
\* error and writes neither the payment mandate nor the payment result.
C1_ConsentRequired ==
    [][(PayStep /\ Has("cart_mandate") /\ CartExpiry > clock /\ consent # "affirmative")
        => /\ ret'.status = "error"
           /\ KeyUnchanged("payment_mandate")
           /\ KeyUnchanged("payment_result")]_vars

\* C2: a payment mandate or a payment result comes into the store, or is
\* replaced, only in a step taken after the donor answered affirmatively about
\* the cart in the store; a negative answer, another answer, a pending question
\* or no question never leads to one.
C2_PaymentOnlyAfterConsent ==
    [][(~KeyUnchanged("payment_mandate") \/ ~KeyUnchanged("payment_result"))
        => consent = "affirmative"]_vars

\* C3: both expiry checks judge a mandate valid exactly when its expiry is
\* strictly after the clock they read: expiry = now is invalid, now + 1 is
\* valid, now - 1 is invalid.
C3_ExpiryBoundary ==
    [][/\ (OfferStep /\ Has("intent_mandate"))
            => (ret'.status = "success" <=> IntentExpiry > clock)
       /\ (PayStep /\ Has("cart_mandate"))
            => (ret'.status = "success" <=> CartExpiry > clock)]_vars

\* C4: when the intent in the store has an intent_expiry in the past,
\* create_cart_mandate returns the expiry error and the cart key is left exactly
\* as it was.
C4_ExpiredIntentNoCart ==
    [][(OfferStep /\ Has("intent_mandate") /\ IntentExpiry < clock)
        => /\ ret' = Err("create_cart_mandate", "IntentMandate expired")
           /\ KeyUnchanged("cart_mandate")]_vars

\* C4 witness: create_cart_mandate was refused for an expired intent while an
\* earlier cart is in the store
C4_Witness ==
    /\ Has("intent_mandate") /\ IntentExpiry < clock
    /\ ret = Err("create_cart_mandate", "IntentMandate expired")
    /\ Has("cart_mandate")

\* C5: when the cart in the store has a cart_expiry in the past,
\* create_payment_mandate returns the expiry error and writes neither the
\* payment key nor the result key, whatever the donor answered.
C5_ExpiredCartNoPayment ==
    [][(PayStep /\ Has("cart_mandate") /\ CartExpiry < clock)
        => /\ ret' = Err("create_payment_mandate", "CartMandate expired")
           /\ KeyUnchanged("payment_mandate")
           /\ KeyUnchanged("payment_result")]_vars

\* C5 witness: create_payment_mandate was refused for an expired cart although
\* the donor had answered affirmatively, and nothing was written
C5_Witness ==
    /\ Has("cart_mandate") /\ CartExpiry < clock
    /\ ret = Err("create_payment_mandate", "CartMandate expired")
    /\ consent = "affirmative"
    /\ ~Has("payment_mandate") /\ ~Has("payment_result")

\* C6: every cart that create_cart_mandate writes has a cart_expiry earlier
\* than the intent_expiry of the intent it was derived from.
C6_CartExpiresBeforeIntent ==
    [][(OfferStep /\ ret'.status = "success")
        => FromIsoFormat(state'.cart_mandate.contents.cart_expiry) < IntentExpiry]_vars

\* C7 as stated: whenever an intent and a cart are both in the store, the
\* cart's total amount equals the intent's amount.
C7_CartTotalEqualsIntentAmount ==
    (Has("intent_mandate") /\ Has("cart_mandate"))
        => CartTotal(state).value = state.intent_mandate.amount

AmountsDisagree(s) ==
    /\ "intent_mandate" \in DOMAIN s /\ "cart_mandate" \in DOMAIN s
    /\ CartTotal(s).value # s.intent_mandate.amount

\* C7 amended: every cart create_cart_mandate writes has the total amount of
\* the intent then in the store, and the two amounts can only come to differ by
\* a later successful save_user_choice that overwrites the intent.
C7_CartTotalFromIntent ==
    [][/\ (OfferStep /\ ret'.status = "success")
            => CartTotal(state').value = state.intent_mandate.amount
       /\ (AmountsDisagree(state') /\ ~AmountsDisagree(state))
            => /\ ret' = Ok("save_user_choice", "Created IntentMandate")
               /\ KeyUnchanged("cart_mandate")
               /\ ~KeyUnchanged("intent_mandate")]_vars

\* C7 witness: create_cart_mandate has just written a cart for an intent that
\* was saved after the session's start, with the intent's amount
C7_Witness ==
    /\ Has("intent_mandate") /\ Has("cart_mandate")
    /\ Returned("create_cart_mandate", "success")
    /\ CartTotal(state).value = state.intent_mandate.amount
    /\ FromIsoFormat(state.intent_mandate.timestamp) > 0

\* C8: whenever a payment mandate and a cart are both in the store, the
\* payment's payment_details_id is the cart's id and its amount and currency
\* are the cart's total amount and currency.
C8_PaymentMatchesCart ==
    (Has("payment_mandate") /\ Has("cart_mandate"))
        => /\ PaymentContents(state).payment_details_id = state.cart_mandate.contents.id
           /\ PaymentContents(state).amount = CartTotal(state)

\* C9: after one linear successful run from the empty store (intent, offer,
\* question, affirmative answer, payment, each once) the store holds all four
\* records, linked: merchant, amounts, cart id, and a completed result with the
\* cart's amount and currency.
C9_ChainLinkage ==
    history = LinearRun
        => /\ DOMAIN state = {"intent_mandate", "cart_mandate",
                              "payment_mandate", "payment_result"}
           /\ state.cart_mandate.contents.merchant_name = state.intent_mandate.merchants[1]
           /\ CartTotal(state).value = state.intent_mandate.amount
           /\ PaymentContents(state).payment_details_id = state.cart_mandate.contents.id
           /\ PaymentContents(state).amount.value = CartTotal(state).value
           /\ state.payment_result.status = "completed"
           /\ state.payment_result.amount = CartTotal(state).value
           /\ state.payment_result.currency = CartTotal(state).currency

\* C9 witness: the linear run has completed with a successful payment
C9_Witness == history = LinearRun /\ Returned("create_payment_mandate", "success")

\* C10: once a payment result is in the store, no later step changes the
\* store: the payment mandate and the result are written at most once.
C10_TerminalIsFinal ==
    [][Has("payment_result") => state' = state]_vars

\* C11 as stated: once an intent is in the store, no step changes or removes
\* the value under the intent key.
C11_IntentNeverChanges ==
    [][Has("intent_mandate") => KeyUnchanged("intent_mandate")]_vars

\* C11 amended: once an intent is in the store the intent key is never removed,
\* create_cart_mandate, create_payment_mandate and a failed save_user_choice
\* leave its value as it was, and the only step that changes it is a later
\* successful save_user_choice, which replaces it.
C11_IntentChangedOnlyBySave ==
    [][Has("intent_mandate")
        => /\ "intent_mandate" \in DOMAIN state'
           /\ ~KeyUnchanged("intent_mandate")
                => ret' = Ok("save_user_choice", "Created IntentMandate")]_vars

\* C11 witness: a cart and a payment have been written after the intent, and
\* the intent saved at the session's start is still the one in the store
C11_Witness ==
    /\ Has("intent_mandate") /\ Has("cart_mandate") /\ Has("payment_result")
    /\ FromIsoFormat(state.intent_mandate.timestamp) = 0
    /\ clock > 0
    /\ Returned("create_payment_mandate", "success")

\* C12: in a run of the pipeline in which create_cart_mandate returned an
\* error, create_payment_mandate is not called and neither the payment mandate
\* nor the payment result is written, even when an earlier cart is in the store.
C12_PipelineHaltsAtFirstError ==
    [][(pc # "idle" /\ Returned("create_cart_mandate", "error"))
        => /\ ret'.op # "create_payment_mandate"
           /\ KeyUnchanged("payment_mandate")
           /\ KeyUnchanged("payment_result")]_vars

\* C13: every call of save_user_choice, create_cart_mandate or
\* create_payment_mandate that returns an error (validation, absent
\* predecessor, damaged mandate, expired mandate) leaves the whole store as it
\* was: no key is added, removed or changed.
C13_ErrorLeavesStore ==
    [][ret'.status = "error" => state' = state]_vars

\* C13 witness: create_payment_mandate has returned the damaged-cart error on a
\* store that holds an intent and a cart without its contents wrapper
C13_Witness ==
    /\ ret = Err("create_payment_mandate",
                 "Invalid CartMandate structure: missing contents wrapper")
    /\ Has("intent_mandate") /\ Has("cart_mandate")
    /\ "contents" \notin DOMAIN state.cart_mandate

\* what the rules of save_user_choice say about its arguments
NameOk(n) == \E i \in 1..Len(n) : n[i] # " "
EinOk(e) == Len(e) = 10 /\ e[3] = "-"
AmountOk(a) == 0 < a /\ a <= 1000000

FieldNamed(message) ==
    CASE message = "Charity name cannot be empty" -> "name"
      [] message = "Invalid EIN format" -> "ein"
      [] message \in {"Donation amount must be positive",
                      "Donation amount exceeds maximum"} -> "amount"
      [] OTHER -> "none"

\* the first field, in the order name, EIN, amount, that breaks its rule
FirstOffending(n, e, a) ==
    IF ~NameOk(n) THEN "name"
    ELSE IF ~EinOk(e) THEN "ein"
    ELSE IF ~AmountOk(a) THEN "amount"
    ELSE "none"

\* C15: the message save_user_choice returns names the first offending field
\* in the order name, EIN, amount, however many fields are invalid; it names
\* none exactly when all three are valid.
C15_FirstOffendingField ==
    [][\A n \in AllNames, e \in AllEins, a \in AllAmounts :
          save_user_choice(n, e, a)
              => FieldNamed(ret'.message) = FirstOffending(n, e, a)]_vars

\* C15 witness: the EIN error has been returned (as it is for a valid name, a
\* bad EIN and a bad amount together) and the store is still empty
C15_Witness ==
    /\ ret = Err("save_user_choice", "Invalid EIN format")
    /\ state = EmptyDict

\* C16: a save_user_choice call whose arguments break a rule returns an error
\* and leaves the intent key, absent or holding an earlier intent, and the rest
\* of the store as they were.
C16_FailedSaveWritesNothing ==
    [][\A n \in AllNames, e \in AllEins, a \in AllAmounts :
          (save_user_choice(n, e, a) /\ ~(NameOk(n) /\ EinOk(e) /\ AmountOk(a)))
              => /\ ret'.status = "error"
                 /\ KeyUnchanged("intent_mandate")
                 /\ state' = state]_vars

\* C16 witness: save_user_choice has refused an amount while the earlier
\* intent is still in the store, untouched
C16_Witness ==
    /\ ret = Err("save_user_choice", "Donation amount must be positive")
    /\ Has("intent_mandate") /\ state.intent_mandate = SeededIntent

Digits == {"0", "1", "2", "3", "4", "5", "6", "7", "8", "9"}

\* two digits, a hyphen, seven digits
IsEin(e) ==
    /\ Len(e) = 10
    /\ e[3] = "-"
    /\ \A i \in (1..10) \ {3} : e[i] \in Digits

\* C17: every intent a successful save_user_choice writes has a charity_ein of
\* two digits, a hyphen and seven digits; 10 characters with the hyphen at
\* index 2 and a non-digit elsewhere are refused.
C17_EinIsDigits ==
    [][ret' = Ok("save_user_choice", "Created IntentMandate")
        => IsEin(state'.intent_mandate.charity_ein)]_vars

\* C18: the intent a successful save_user_choice writes is stamped with the
\* clock of the call, expires exactly one hour (4 ticks) later, hence after its
\* creation, requires cart confirmation and is in USD.
C18_IntentExpiryOneHour ==
    [][ret' = Ok("save_user_choice", "Created IntentMandate")
        => LET m == state'.intent_mandate IN
           /\ FromIsoFormat(m.timestamp) = clock
           /\ FromIsoFormat(m.intent_expiry) = FromIsoFormat(m.timestamp) + 4
           /\ FromIsoFormat(m.intent_expiry) > FromIsoFormat(m.timestamp)
           /\ m.user_cart_confirmation_required = TRUE
           /\ m.currency = "USD"]_vars

\* C18 witness: an intent has been written later than the session's start,
\* in place of the intent the session was seeded with
C18_Witness ==
    /\ ret = Ok("save_user_choice", "Created IntentMandate")
    /\ clock > 0
    /\ FromIsoFormat(state.intent_mandate.timestamp) = clock
    /\ Has("cart_mandate")

\* C19: create_cart_mandate called with no intent in the store, and
\* create_payment_mandate called with no cart in the store or with a cart that
\* lacks the contents wrapper, return the corresponding error and write no
\* mandate.
C19_MissingPredecessor ==
    [][/\ (OfferStep /\ ~Has("intent_mandate"))
            => /\ ret' = Err("create_cart_mandate", "No IntentMandate found")
               /\ state' = state
       /\ (PayStep /\ ~Has("cart_mandate"))
            => /\ ret' = Err("create_payment_mandate", "No CartMandate found")
               /\ state' = state
       /\ (PayStep /\ Has("cart_mandate") /\ state.cart_mandate # EmptyDict
              /\ "contents" \notin DOMAIN state.cart_mandate)
            => /\ ret' = Err("create_payment_mandate",
                             "Invalid CartMandate structure: missing contents wrapper")
               /\ state' = state]_vars

\* C19 witness: create_cart_mandate has been refused for want of an intent in
\* a store that holds only a cart
C19_Witness ==
    /\ ret = Err("create_cart_mandate", "No IntentMandate found")
    /\ ~Has("intent_mandate") /\ Has("cart_mandate")

\* the intent in the store has a readable intent_expiry that is still ahead
IntentUnexpired ==
    /\ Has("intent_mandate")
    /\ "intent_expiry" \in DOMAIN state.intent_mandate
    /\ IsIsoString(state.intent_mandate.intent_expiry)
    /\ ~IsNaive(state.intent_mandate.intent_expiry)
    /\ IntentExpiry > clock

\* C20: create_cart_mandate called on an unexpired intent whose merchant list
\* is empty, or which has no amount, returns an error and leaves the cart key as
\* it was.
C20_MalformedIntentNoCart ==
    [][(/\ OfferStep
        /\ IntentUnexpired
        /\ \/ state.intent_mandate.merchants = <<>>
           \/ "amount" \notin DOMAIN state.intent_mandate)
        => /\ ret'.status = "error"
           /\ KeyUnchanged("cart_mandate")]_vars

\* C21: the cart a successful create_cart_mandate writes carries the signature
\* of the contents block stored with it: signing the stored contents again
\* gives the stored merchant_authorization.
C21_SignatureMatchesContents ==
    [][ret' = Ok("create_cart_mandate", "Created signed CartMandate")
        => state'.cart_mandate.merchant_authorization
             = _generate_merchant_signature(state'.cart_mandate.contents)]_vars

\* C21 witness: a cart has been written over the seeded one, and signing its
\* contents again gives its signature
C21_Witness ==
    /\ ret = Ok("create_cart_mandate", "Created signed CartMandate")
    /\ state.cart_mandate # SeededCart
    /\ state.cart_mandate.merchant_authorization
         = _generate_merchant_signature(state.cart_mandate.contents)

\* two ordered dictionaries hold the same keys with the same values, whatever
\* the order of their keys
RECURSIVE SameContents(_, _)
SameContents(a, b) ==
    /\ {a.order[i] : i \in 1..Len(a.order)} = {b.order[i] : i \in 1..Len(b.order)}
    /\ \A i \in 1..Len(a.order) :
          LET x == a.items[a.order[i]]
              y == b.items[a.order[i]]
          IN  /\ DOMAIN x = DOMAIN y
              /\ IF DOMAIN x = {"dict"} THEN SameContents(x.dict, y.dict)
                 ELSE x.leaf = y.leaf

\* C22: the signature of a contents value is the signature of every contents
\* value with the same keys and values, whatever the insertion order of the
\* keys at any level and whatever the clock; signing again gives the same tag.
C22_SignatureOrderIndependent ==
    [][ret'.op = "_generate_merchant_signature"
        => /\ \A other \in SignInputs :
                SameContents(other, state.cart_contents)
                    => SignOrdered(other) = ret'.message
           /\ ret.op = "_generate_merchant_signature" => ret' = ret]_vars

\* C22 witness: contents whose keys were inserted in an order that is not the
\* sorted one, at both levels, have been signed
C22_Witness ==
    /\ ret.op = "_generate_merchant_signature"
    /\ state.cart_contents.order[1] = "payment_request"
    /\ state.cart_contents.items.payment_request.dict.order[1] = "value"
    /\ clock = MaxClock

C24_NoExceptionEscapes ==
    ret.status \in {"none", "success", "error"}

\* a timestamp string that does not parse, or parses without a UTC offset
BadTimestamp(s) ==
    \/ "text" \in DOMAIN s
    \/ "offset" \in DOMAIN s /\ s.offset = ""

\* C25: create_cart_mandate on an intent, and create_payment_mandate on a
\* cart, whose expiry string does not parse or has no timezone return the
\* invalid-format error and write nothing: such a mandate is never taken for
\* unexpired, and nothing is raised.
C25_MalformedExpiryIsError ==
    [][/\ (/\ OfferStep
           /\ Has("intent_mandate")
           /\ "intent_expiry" \in DOMAIN state.intent_mandate
           /\ BadTimestamp(state.intent_mandate.intent_expiry))
            => /\ ret' = Err("create_cart_mandate", "Invalid intent_expiry format")
               /\ state' = state
       /\ (/\ PayStep
           /\ Has("cart_mandate")
           /\ "contents" \in DOMAIN state.cart_mandate
           /\ "cart_expiry" \in DOMAIN state.cart_mandate.contents
           /\ BadTimestamp(state.cart_mandate.contents.cart_expiry))
            => /\ ret' = Err("create_payment_mandate", "Invalid cart_expiry format")
               /\ state' = state]_vars

\* C25 witness: create_payment_mandate has refused a cart whose cart_expiry
\* has no timezone and would lie ahead of the clock
C25_Witness ==
    /\ ret = Err("create_payment_mandate", "Invalid cart_expiry format")
    /\ state.cart_mandate.contents.cart_expiry = [instant |-> MaxClock, offset |-> ""]
    /\ clock < MaxClock

\* the step is a successful call of the tool op
Succeeded(Step, op) == ret'.op = op /\ ret'.status = "success" /\ Step

\* every key other than those in `own` is the same before and after the step
OthersUnchanged(own) ==
    \A k \in ((DOMAIN state) \cup (DOMAIN state')) \ own : KeyUnchanged(k)

\* C26: a successful save_user_choice changes only the intent key, a
\* successful create_cart_mandate only the cart key, a successful
\* create_payment_mandate only the payment and result keys; the value written
\* is the one built in that call, with nothing kept of the value it replaces.
C26_SingleWriterOverwrite ==
    [][/\ (Succeeded(SaveStep, "save_user_choice"))
            => /\ OthersUnchanged({"intent_mandate"})
               /\ \E n \in Names, e \in Eins, a \in Amounts :
                     state'.intent_mandate = _create_intent_mandate(n, e, a, clock)
       /\ (Succeeded(OfferStep, "create_cart_mandate"))
            => /\ OthersUnchanged({"cart_mandate"})
               /\ state'.cart_mandate = BuildCartMandate(state.intent_mandate, clock')
       /\ (Succeeded(PayStep, "create_payment_mandate"))
            => /\ OthersUnchanged({"payment_mandate", "payment_result"})
               /\ \E t1, t2, t3 \in clock..clock' :
                     /\ state'.payment_mandate
                          = _create_payment_mandate(state.cart_mandate, TRUE, t1)
                     /\ state'.payment_result
                          = PaymentResult(state.cart_mandate, t2, t3)]_vars

\* C26 witness: a second payment has replaced the first one, for a second
\* cart, beside an intent that was itself replaced
C26_Witness ==
    /\ Returned("create_payment_mandate", "success")
    /\ Has("intent_mandate") /\ Has("cart_mandate") /\ Has("payment_mandate")
    /\ FromIsoFormat(state.intent_mandate.timestamp) > 0
    /\ FromIsoFormat(state.cart_mandate.timestamp)
         > FromIsoFormat(state.intent_mandate.timestamp)
    /\ PaymentContents(state).payment_details_id = state.cart_mandate.contents.id
    /\ history = <<"other">>

\* C27: with two sessions interleaved in every order, a tool call of the running
\* session leaves the other session's store as it was, and whether the call
\* succeeds, and what it writes, is decided by the running session's own store
\* and the clock.
C27_SessionIsolation ==
    [][((SaveStep \/ OfferStep \/ PayStep) /\ sessions'.running = sessions.running)
        => /\ sessions'.suspended = sessions.suspended
           /\ OfferStep
                => /\ ret'.status = "success"
                        <=> (Has("intent_mandate") /\ IntentExpiry >= clock)
                   /\ ret'.status = "success"
                        => state'.cart_mandate
                             = BuildCartMandate(state.intent_mandate, clock')
           /\ PayStep
                => /\ ret'.status = "success"
                        <=> (Has("cart_mandate") /\ CartExpiry >= clock)
                   /\ ret'.status = "success"
                        => state'.payment_mandate
                             = _create_payment_mandate(state.cart_mandate, TRUE, clock)]_vars

\* C27 witness: the running session, whose store is empty, was refused a cart
\* while the other session holds an intent, a cart and a payment
C27_Witness ==
    /\ ret = Err("create_cart_mandate", "No IntentMandate found")
    /\ state = EmptyDict
    /\ {"intent_mandate", "cart_mandate", "payment_result"}
          \subseteq DOMAIN sessions.suspended.state
    /\ sessions.running = "pipeline_session"

IntentExpired == Has("intent_mandate") /\ IntentExpiry < clock
CartExpired == Has("cart_mandate") /\ CartExpiry < clock

\* C28: once the stored intent is expired, create_cart_mandate fails with the
\* expiry error at every later call, and the intent stays expired, until a
\* save_user_choice succeeds; once the stored cart is expired,
\* create_payment_mandate fails with the expiry error at every later call, and
\* the cart stays expired, until a create_cart_mandate succeeds.
C28_ExpiryFailureIsFatal ==
    [][/\ IntentExpired
            => /\ (ret'.op = "create_cart_mandate" /\ OfferStep)
                    => ret' = Err("create_cart_mandate", "IntentMandate expired")
               /\ ~IntentExpired'
                    => Succeeded(SaveStep, "save_user_choice")
       /\ CartExpired
            => /\ (ret'.op = "create_payment_mandate" /\ PayStep)
                    => ret' = Err("create_payment_mandate", "CartMandate expired")
               /\ ~CartExpired'
                    => Succeeded(OfferStep, "create_cart_mandate")]_vars

\* C28 witness: create_cart_mandate was refused for the expired intent, well
\* after the cart in the store expired without having been paid
C28_Witness ==
    /\ IntentExpired /\ CartExpired
    /\ CartExpiry + 2 < clock
    /\ ret = Err("create_cart_mandate", "IntentMandate expired")
    /\ ~Has("payment_mandate")

\* C29: create_payment_mandate, called after the donor's affirmative answer on
\* a cart that has not expired, returns success and writes a payment mandate
\* with user_consent true, a consent_timestamp and agent_present true, and a
\* payment result with status "completed", the simulation flag, and the cart's
\* merchant name, amount and currency.
C29_ConsentedPaymentSucceeds ==
    [][(/\ consent = "affirmative"
        /\ Has("cart_mandate") /\ CartExpiry >= clock
        /\ ret'.op = "create_payment_mandate" /\ PayStep)
        => /\ ret' = Ok("create_payment_mandate", "Payment processed successfully")
           /\ PaymentContents(state').user_consent = TRUE
           /\ ~IsNone(PaymentContents(state').consent_timestamp)
           /\ state'.payment_mandate.agent_present = TRUE
           /\ state'.payment_result.status = "completed"
           /\ state'.payment_result.simulation = TRUE
           /\ state'.payment_result.merchant = state.cart_mandate.contents.merchant_name
           /\ state'.payment_result.amount = CartTotal(state).value
           /\ state'.payment_result.currency = CartTotal(state).currency]_vars

\* C29 witness: a confirmed payment of 75 made at the very instant the cart
\* expires
C29_Witness ==
    /\ consent = "affirmative"
    /\ Returned("create_payment_mandate", "success")
    /\ Has("payment_result") /\ state.payment_result.amount = 75
    /\ PaymentContents(state).payment_details_id = state.cart_mandate.contents.id
    /\ FromIsoFormat(PaymentContents(state).timestamp) = CartExpiry

\* C30: every CartMandate a successful create_cart_mandate writes is one for
\* which validate_ap2_cartmandate collects no error, and the validation that
\* follows the call reports the cart as compliant.
C30_WrittenCartPassesValidator ==
    [][/\ Succeeded(OfferStep, "create_cart_mandate")
            => validate_ap2_cartmandate(state'.cart_mandate) = {}
       /\ (ret.op = "create_cart_mandate" /\ ret.status = "success"
            /\ ret'.op = "validate_ap2_cartmandate")
            => ret'.status = "success"]_vars

\* C30 witness: the validator has passed a cart written for an intent that
\* names no merchant, next to which it rejects a cart left without cart_expiry
C30_Witness ==
    /\ Returned("validate_ap2_cartmandate", "success")
    /\ state.cart_mandate.contents.merchant_name = <<"Unknown Charity">>
    /\ validate_ap2_cartmandate(
            [state.cart_mandate EXCEPT
                !.contents = RemoveKey(state.cart_mandate.contents, "cart_expiry")])
         = {"contents is missing required field: 'cart_expiry'"}

\* C31: the intent a successful save_user_choice writes has an intent_id other
\* than that of the intent an earlier call left in the store.
C31_IntentIdsUnique ==
    [][(Succeeded(SaveStep, "save_user_choice") /\ Has("intent_mandate"))
        => state'.intent_mandate.intent_id # state.intent_mandate.intent_id]_vars

\* the dictionary d has the intent_id of `intent` under the key intent_id
NamesIntent(d, intent) ==
    "intent_id" \in DOMAIN d /\ d.intent_id = intent.intent_id

\* C32: the cart a successful create_cart_mandate writes has the intent_id of
\* the intent it was made from, in the mandate or in its contents, and the
\* payment mandate a successful create_payment_mandate writes has the id of
\* the cart it was made from.
C32_MandateReferencesPredecessor ==
    [][/\ Succeeded(OfferStep, "create_cart_mandate")
            => \/ NamesIntent(state'.cart_mandate, state.intent_mandate)
               \/ NamesIntent(state'.cart_mandate.contents, state.intent_mandate)
       /\ Succeeded(PayStep, "create_payment_mandate")
            => PaymentContents(state').payment_details_id
                 = state.cart_mandate.contents.id]_vars

\* C33: from the empty store, in every reachable state a cart is in the store
\* only beside an intent, a payment mandate only beside a cart, and a payment
\* result only beside a payment mandate.
C33_StoreFollowsStageOrder ==
    /\ Has("cart_mandate") => Has("intent_mandate")
    /\ Has("payment_mandate") => Has("cart_mandate")
    /\ Has("payment_result") => Has("payment_mandate")

\* C33 witness: all four records are in the store, the cart having been made
\* again after the payment
C33_Witness ==
    /\ DOMAIN state = {"intent_mandate", "cart_mandate",
                       "payment_mandate", "payment_result"}
    /\ Returned("create_cart_mandate", "success")
    /\ FromIsoFormat(state.cart_mandate.timestamp)
         > FromIsoFormat(state.payment_result.timestamp)

\* the verdict a (is_valid, error_message) pair stands for
Verdict(v) ==
    IF Len(v) = 3 THEN "raised"
    ELSE IF v[1] THEN "valid"
    ELSE IF v[2] \in {"IntentMandate expired", "CartMandate expired"} THEN "expired"
    ELSE "malformed"

\* the verdict of the check that has just returned
ReturnedVerdict ==
    IF ret.status = "raised" THEN "raised"
    ELSE IF ret.status = "success" THEN "valid"
    ELSE IF ret.message \in {"IntentMandate expired", "CartMandate expired"} THEN "expired"
    ELSE "malformed"

\* C34: for every expiry string and every clock value, the verdict (valid,
\* expired or malformed) _validate_intent_expiry returns on the string is the
\* verdict _validate_cart_expiry returns on a cart with that cart_expiry.
C34_ExpiryChecksAgree ==
    /\ ret.op = "_validate_intent_expiry"
         => ReturnedVerdict
              = Verdict(_validate_cart_expiry(
                    [contents |-> [cart_expiry |-> state.expiry_str]], clock))
    /\ ret.op = "_validate_cart_expiry"
         => ReturnedVerdict = Verdict(_validate_intent_expiry(state.expiry_str, clock))

\* C34 witness: the cart check has passed a Z-suffixed expiry equal to the clock
C34_Witness ==
    /\ ret = Ok("_validate_cart_expiry", "")
    /\ state.expiry_str.offset = "Z"
    /\ FromIsoFormat(state.expiry_str) = clock

\* the cart with another value of merchant_authorization
Resigned(cart_mandate, signature) ==
    [cart_mandate EXCEPT !.merchant_authorization = signature]

\* C35: create_payment_mandate returns what it would return, and writes the
\* payment mandate and payment result it would write, at the same clock on the
\* store whose cart differs in merchant_authorization alone, whether that tag
\* is the signature of the contents or not; no SignatureMismatch is returned.
C35_PaymentIgnoresSignature ==
    [][(/\ ret'.op = "create_payment_mandate" /\ PayStep
        /\ Has("cart_mandate")
        /\ {"contents", "merchant_authorization"} \subseteq DOMAIN state.cart_mandate)
        => \A signature \in {TestSignature, SeededCart.merchant_authorization} :
             LET other == Resigned(state.cart_mandate, signature)
                 v == _validate_cart_expiry(other, clock)
             IN  /\ ret'.message # "SignatureMismatch"
                 /\ ret'.status = "success" <=> Verdict(v) = "valid"
                 /\ ret'.status = "raised" <=> Verdict(v) = "raised"
                 /\ ret'.status # "success" => state' = state /\ ret'.message = v[2]
                 /\ ret'.status = "success"
                      => \E t1, t2, t3 \in clock..clock' :
                            /\ state'.payment_mandate
                                 = _create_payment_mandate(other, TRUE, t1)
                            /\ state'.payment_result = PaymentResult(other, t2, t3)]_vars

\* C35 witness: a payment made on the cart whose merchant_authorization is not
\* the signature of its contents
C35_Witness ==
    /\ Returned("create_payment_mandate", "success")
    /\ Has("payment_mandate")
    /\ state.cart_mandate.merchant_authorization = TestSignature
    /\ state.cart_mandate.merchant_authorization
         # _generate_merchant_signature(state.cart_mandate.contents)

\* C36: the cart a successful create_cart_mandate writes has a timestamp not
\* later than the intent_expiry of the intent it read, and the payment mandate
\* and payment result a successful create_payment_mandate writes have
\* timestamps not later than the cart_expiry of the cart it read.
C36_NothingCreatedAfterExpiry ==
    [][/\ Succeeded(OfferStep, "create_cart_mandate")
            => FromIsoFormat(state'.cart_mandate.timestamp) <= IntentExpiry
       /\ Succeeded(PayStep, "create_payment_mandate")
            => /\ FromIsoFormat(state'.payment_mandate.timestamp) <= CartExpiry
               /\ FromIsoFormat(state'.payment_result.timestamp) <= CartExpiry]_vars

\* C37: the cart a successful create_cart_mandate writes expires no later than
\* 15 minutes after the intent_expiry of the intent it read, and no
\* create_payment_mandate succeeds later than 75 minutes after the creation of
\* the intent in the store (the intent the cart was made from, or a later one).
C37_BoundedExposure ==
    [][/\ Succeeded(OfferStep, "create_cart_mandate")
            => FromIsoFormat(state'.cart_mandate.contents.cart_expiry)
                 <= IntentExpiry + CartTTL
       /\ Succeeded(PayStep, "create_payment_mandate")
            => FromIsoFormat(state'.payment_result.timestamp)
                 <= FromIsoFormat(state.intent_mandate.timestamp)
                      + IntentTTL + CartTTL]_vars

\* C38: create_payment_mandate writes a payment mandate and a payment result
\* only for a cart whose contents hold an id, a merchant name and a total
\* amount with value and currency, and the id, merchant, amount and currency it
\* records are the cart's.
C38_NoDefaultsSettled ==
    [][Succeeded(PayStep, "create_payment_mandate")
        => LET contents == state.cart_mandate.contents
               amount_obj == AmountObj(contents)
           IN  /\ {"id", "merchant_name"} \subseteq DOMAIN contents
               /\ {"value", "currency"} \subseteq DOMAIN amount_obj
               /\ PaymentContents(state').payment_details_id = contents.id
               /\ PaymentContents(state').merchant_name = contents.merchant_name
               /\ state'.payment_result.merchant = contents.merchant_name
               /\ state'.payment_result.amount = amount_obj.value
               /\ state'.payment_result.currency = amount_obj.currency]_vars

\* C39: from the empty store, in every reachable state the payment mandate is
\* in the store exactly when the payment result is, and the result's amount,
\* currency and merchant are the payment mandate's amount value, currency and
\* merchant_name.
C39_PaymentAndResultTogether ==
    /\ Has("payment_mandate") <=> Has("payment_result")
    /\ (Has("payment_mandate") /\ Has("payment_result"))
         => /\ state.payment_result.amount = PaymentContents(state).amount.value
            /\ state.payment_result.currency = PaymentContents(state).amount.currency
            /\ state.payment_result.merchant = PaymentContents(state).merchant_name

\* C39 witness: the records of a payment of 75 are still in the store, together,
\* after a later create_payment_mandate was refused for the expired cart
C39_Witness ==
    /\ ret = Err("create_payment_mandate", "CartMandate expired")
    /\ Has("payment_mandate") /\ Has("payment_result")
    /\ state.payment_result.amount = 75
    /\ PaymentContents(state).amount.value = 75
====
